---- MODULE Spec2Model ----
(***************************************************************************)
(* Model of mihome-to-mqtt.py: a bridge that receives Energenie Mi|Home    *)
(* device messages and publishes them over MQTT.                           *)
(*                                                                         *)
(* Two threads of execution are modelled:                                  *)
(*   - the main thread (module-level configuration, the __main__ block),   *)
(*     whose position is pc;                                               *)
(*   - the paho-mqtt network thread started by loop_start(), whose state   *)
(*     is netState and on which mqttOnConnect / mqttOnDisconnect run.      *)
(***************************************************************************)
EXTENDS Integers, Sequences, FiniteSets, TLC

\* ---------------------------------------------------------------- bounds
MaxEvents == 2      \* device events delivered in a run
MaxAttempts == 2    \* broker connection attempts in a run
MaxRecs == 3        \* parameter pairs in a RawEvent

\* ------------------------------------------------------------------ state
VARIABLES
    pc,             \* position of the main thread
    exitPending,    \* exit status carried through the finally clause
    exitCode,       \* None while the process runs, Some(status) once exited
    envProtoVersion,\* MQTT_PROTO_VERSION environment value
    mqttQoS,        \* MQTT_QOS (default 1, not validated)
    calls,          \* how often each collaborator call has been made
    will,           \* the last-will registered by will_set, None before it
    log,            \* lines written to stderr
    netState,       \* paho network thread / connection state
    connResults,    \* outcome of each broker connection attempt, in order
    interrupted,    \* TRUE once an interrupt signal has been received
    delivered,      \* RawEvents the device source has delivered, in order
    published,      \* arguments of each mqttClient.publish call, in order
    clientMsgs,     \* what the client did with each publish call
    dMsg,           \* SpecDecode: the RawEvent being decoded
    dOut,           \* SpecDecode: the decoded record, None before
    dSeen           \* SpecHandler: what the handler made of each event

vars == <<pc, exitPending, exitCode, envProtoVersion, mqttQoS, calls, log,
          netState, connResults, interrupted, delivered, published, clientMsgs,
          dMsg, dOut, dSeen, will>>

mainVars == <<pc, exitPending, exitCode, envProtoVersion, mqttQoS, calls,
              log, netState, connResults, interrupted, delivered, published,
              clientMsgs, will>>

\* ------------------------------------------------------- option encoding
\* Python None is <<>>, any other value v is <<v>>.
None == <<>>
Some(v) == <<v>>

\* ------------------------------------------------------------- catalogue
MFRID_ENERGENIE == 4
PRODUCTID_MIHO004 == 1
PRODUCTID_MIHO005 == 2
PRODUCTID_MIHO013 == 3
PRODUCTID_MIHO006 == 5
PRODUCTID_MIHO032 == 12
PRODUCTID_MIHO033 == 13

manufIdToName(manufId) ==
    IF manufId = MFRID_ENERGENIE THEN Some("Energenie") ELSE None

prodIdToCode(prodId) ==
    IF prodId = PRODUCTID_MIHO004 THEN Some("MIHO004")
    ELSE IF prodId = PRODUCTID_MIHO005 THEN Some("MIHO005")
    ELSE IF prodId = PRODUCTID_MIHO006 THEN Some("MIHO006")
    ELSE IF prodId = PRODUCTID_MIHO013 THEN Some("MIHO013")
    ELSE IF prodId = PRODUCTID_MIHO032 THEN Some("MIHO032")
    ELSE IF prodId = PRODUCTID_MIHO033 THEN Some("MIHO033")
    ELSE None

prodIdToName(prodId) ==
    IF prodId = PRODUCTID_MIHO004 THEN Some("Monitor")
    ELSE IF prodId = PRODUCTID_MIHO005 THEN Some("AdaptorPlus")
    ELSE IF prodId = PRODUCTID_MIHO006 THEN Some("HomeMonitor")
    ELSE IF prodId = PRODUCTID_MIHO013 THEN Some("eTRV")
    ELSE IF prodId = PRODUCTID_MIHO032 THEN Some("MotionSensor")
    ELSE IF prodId = PRODUCTID_MIHO033 THEN Some("OpenSensor")
    ELSE None

\* --------------------------------------------------------------- decoder
\* Parameter kinds the decoder recognises (OpenThings.PARAM_*), and one it
\* does not.
KnownParams == {"SWITCH_STATE", "DOOR_SENSOR", "VOLTAGE", "FREQUENCY",
                "REACTIVE_POWER", "REAL_POWER", "APPARENT_POWER", "CURRENT",
                "TEMPERATURE"}
ParamIds == KnownParams \cup {"JOIN"}

\* rec['value'] inside try/except: a missing value reads as None.
RecValue(rec) == IF "value" \in DOMAIN rec THEN Some(rec.value) ELSE None

DecodeDefaultsNoTemperature ==
    [HasSwitch |-> FALSE, HasVoltage |-> FALSE, HasFrequency |-> FALSE,
     HasReactivePower |-> FALSE, HasRealPower |-> FALSE,
     HasApparentPower |-> FALSE, HasCurrent |-> FALSE,
     HasTemperature |-> FALSE,
     SwitchState |-> None, Voltage |-> None, Frequency |-> None,
     RealPower |-> None, ApparentPower |-> None, ReactivePower |-> None,
     Current |-> None]

DecodeDefaultsStaleFlags ==
    [HasSwitch |-> dOut # None /\ dOut[1].HasSwitch,
     HasVoltage |-> dOut # None /\ dOut[1].HasVoltage,
     HasFrequency |-> dOut # None /\ dOut[1].HasFrequency,
     HasReactivePower |-> dOut # None /\ dOut[1].HasReactivePower,
     HasRealPower |-> dOut # None /\ dOut[1].HasRealPower,
     HasApparentPower |-> dOut # None /\ dOut[1].HasApparentPower,
     HasCurrent |-> dOut # None /\ dOut[1].HasCurrent,
     HasTemperature |-> dOut # None /\ dOut[1].HasTemperature,
     SwitchState |-> None, Voltage |-> None, Frequency |-> None,
     RealPower |-> None, ApparentPower |-> None, ReactivePower |-> None,
     Current |-> None, Temperature |-> None]

\* Defaults set before the loop over msg['recs'] (all flags False, all
\* values None).
DecodeDefaults ==
    [HasSwitch |-> FALSE, HasVoltage |-> FALSE, HasFrequency |-> FALSE,
     HasReactivePower |-> FALSE, HasRealPower |-> FALSE,
     HasApparentPower |-> FALSE, HasCurrent |-> FALSE,
     HasTemperature |-> FALSE,
     SwitchState |-> None, Voltage |-> None, Frequency |-> None,
     RealPower |-> None, ApparentPower |-> None, ReactivePower |-> None,
     Current |-> None, Temperature |-> None]

DecodeRecDoorWithoutFlag(acc, rec) ==
    LET paramId == rec.paramid
        value == RecValue(rec)
    IN  IF paramId = "SWITCH_STATE"
          THEN [acc EXCEPT !.HasSwitch = TRUE, !.SwitchState = value]
        ELSE IF paramId = "DOOR_SENSOR"
          THEN [acc EXCEPT !.SwitchState = value]
        ELSE IF paramId = "VOLTAGE"
          THEN [acc EXCEPT !.HasVoltage = TRUE, !.Voltage = value]
        ELSE IF paramId = "FREQUENCY"
          THEN [acc EXCEPT !.HasFrequency = TRUE, !.Frequency = value]
        ELSE IF paramId = "REACTIVE_POWER"
          THEN [acc EXCEPT !.HasReactivePower = TRUE, !.ReactivePower = value]
        ELSE IF paramId = "REAL_POWER"
          THEN [acc EXCEPT !.HasRealPower = TRUE, !.RealPower = value]
        ELSE IF paramId = "APPARENT_POWER"
          THEN [acc EXCEPT !.HasApparentPower = TRUE, !.ApparentPower = value]
        ELSE IF paramId = "CURRENT"
          THEN [acc EXCEPT !.HasCurrent = TRUE, !.Current = value]
        ELSE IF paramId = "TEMPERATURE"
          THEN [acc EXCEPT !.HasTemperature = TRUE, !.Temperature = value]
        ELSE acc

DecodeRecSkipsMissingValue(acc, rec) ==
    LET paramId == rec.paramid
        value == RecValue(rec)
    IN  IF "value" \notin DOMAIN rec THEN acc
        ELSE IF paramId = "SWITCH_STATE"
          THEN [acc EXCEPT !.HasSwitch = TRUE, !.SwitchState = value]
        ELSE IF paramId = "DOOR_SENSOR"
          THEN [acc EXCEPT !.HasSwitch = TRUE, !.SwitchState = value]
        ELSE IF paramId = "VOLTAGE"
          THEN [acc EXCEPT !.HasVoltage = TRUE, !.Voltage = value]
        ELSE IF paramId = "FREQUENCY"
          THEN [acc EXCEPT !.HasFrequency = TRUE, !.Frequency = value]
        ELSE IF paramId = "REACTIVE_POWER"
          THEN [acc EXCEPT !.HasReactivePower = TRUE, !.ReactivePower = value]
        ELSE IF paramId = "REAL_POWER"
          THEN [acc EXCEPT !.HasRealPower = TRUE, !.RealPower = value]
        ELSE IF paramId = "APPARENT_POWER"
          THEN [acc EXCEPT !.HasApparentPower = TRUE, !.ApparentPower = value]
        ELSE IF paramId = "CURRENT"
          THEN [acc EXCEPT !.HasCurrent = TRUE, !.Current = value]
        ELSE IF paramId = "TEMPERATURE"
          THEN [acc EXCEPT !.HasTemperature = TRUE, !.Temperature = value]
        ELSE acc

DecodeRecUnknownSetsSwitch(acc, rec) ==
    LET paramId == rec.paramid
        value == RecValue(rec)
    IN  IF paramId = "SWITCH_STATE"
          THEN [acc EXCEPT !.HasSwitch = TRUE, !.SwitchState = value]
        ELSE IF paramId = "DOOR_SENSOR"
          THEN [acc EXCEPT !.HasSwitch = TRUE, !.SwitchState = value]
        ELSE IF paramId = "VOLTAGE"
          THEN [acc EXCEPT !.HasVoltage = TRUE, !.Voltage = value]
        ELSE IF paramId = "FREQUENCY"
          THEN [acc EXCEPT !.HasFrequency = TRUE, !.Frequency = value]
        ELSE IF paramId = "REACTIVE_POWER"
          THEN [acc EXCEPT !.HasReactivePower = TRUE, !.ReactivePower = value]
        ELSE IF paramId = "REAL_POWER"
          THEN [acc EXCEPT !.HasRealPower = TRUE, !.RealPower = value]
        ELSE IF paramId = "APPARENT_POWER"
          THEN [acc EXCEPT !.HasApparentPower = TRUE, !.ApparentPower = value]
        ELSE IF paramId = "CURRENT"
          THEN [acc EXCEPT !.HasCurrent = TRUE, !.Current = value]
        ELSE IF paramId = "TEMPERATURE"
          THEN [acc EXCEPT !.HasTemperature = TRUE, !.Temperature = value]
        ELSE [acc EXCEPT !.HasSwitch = TRUE]

\* One iteration of the loop body: the if/elif chain on paramId.
DecodeRec(acc, rec) ==
    LET paramId == rec.paramid
        value == RecValue(rec)
    IN  IF paramId = "SWITCH_STATE"
          THEN [acc EXCEPT !.HasSwitch = TRUE, !.SwitchState = value]
        ELSE IF paramId = "DOOR_SENSOR"
          THEN [acc EXCEPT !.HasSwitch = TRUE, !.SwitchState = value]
        ELSE IF paramId = "VOLTAGE"
          THEN [acc EXCEPT !.HasVoltage = TRUE, !.Voltage = value]
        ELSE IF paramId = "FREQUENCY"
          THEN [acc EXCEPT !.HasFrequency = TRUE, !.Frequency = value]
        ELSE IF paramId = "REACTIVE_POWER"
          THEN [acc EXCEPT !.HasReactivePower = TRUE, !.ReactivePower = value]
        ELSE IF paramId = "REAL_POWER"
          THEN [acc EXCEPT !.HasRealPower = TRUE, !.RealPower = value]
        ELSE IF paramId = "APPARENT_POWER"
          THEN [acc EXCEPT !.HasApparentPower = TRUE, !.ApparentPower = value]
        ELSE IF paramId = "CURRENT"
          THEN [acc EXCEPT !.HasCurrent = TRUE, !.Current = value]
        ELSE IF paramId = "TEMPERATURE"
          THEN [acc EXCEPT !.HasTemperature = TRUE, !.Temperature = value]
        ELSE acc

RECURSIVE DecodeRecsReversed(_, _, _)
DecodeRecsReversed(acc, recs, i) ==
    IF i > Len(recs) THEN acc
    ELSE DecodeRec(DecodeRecsReversed(acc, recs, i + 1), recs[i])

\* The loop "for rec in msg['recs']" run over recs[i..], starting from acc.
RECURSIVE DecodeRecs(_, _, _)
DecodeRecs(acc, recs, i) ==
    IF i > Len(recs) THEN acc
    ELSE DecodeRecs(DecodeRec(acc, recs[i]), recs, i + 1)

\* The identity and provenance part of the returned dict.
DecodeHeader(msg, now, source) ==
    [Timestamp |-> now,
     DateTime |-> [iso |-> now, tz |-> "+00:00"],
     Source |-> source,
     ManufacturerID |-> msg.header.mfrid,
     ManufacturerName |-> manufIdToName(msg.header.mfrid),
     ProductID |-> msg.header.productid,
     ProductCode |-> prodIdToCode(msg.header.productid),
     ProductName |-> prodIdToName(msg.header.productid),
     SensorID |-> msg.header.sensorid]

\* Merge of two records with disjoint field names.
Merge(r, s) ==
    [k \in DOMAIN r \cup DOMAIN s |-> IF k \in DOMAIN r THEN r[k] ELSE s[k]]

mihomeListenerName == "listener"

getDataFromMessage(msg, now) ==
    Merge(DecodeHeader(msg, now, mihomeListenerName),
          DecodeRecs(DecodeDefaults, msg.recs, 1))

\* ----------------------------------------------------------- topic/payload
mqttTopic == "energenie"
mqttRetain == TRUE
mqttWillPayload == "Offline"

OrUnknownKeepsNone(name) == IF name = None THEN "None" ELSE name[1]

\* The "if x == None: x = 'UNKNOWN'" substitutions of energenie_incoming.
OrUnknown(name) == IF name = None THEN "UNKNOWN" ELSE name[1]

\* mqttTopic + "/{0}/{1}/{2}/{3}/{4}/{5}".format(...)
buildTopic(data) ==
    mqttTopic \o "/" \o ToString(data.ManufacturerID)
              \o "/" \o OrUnknown(data.ManufacturerName)
              \o "/" \o ToString(data.ProductID)
              \o "/" \o OrUnknown(data.ProductCode)
              \o "/" \o OrUnknown(data.ProductName)
              \o "/" \o ToString(data.SensorID)

\* json.dumps(data): the record wrapped as a JSON object text.
jsonDumps(data) == [json |-> data]

CallNames == {"Client", "username_pw_set", "max_inflight_messages_set",
              "will_set", "reconnect_delay_set", "connect_async",
              "loop_start", "init", "when_incoming", "finished",
              "disconnect"}

Called(c, names) == [n \in CallNames |-> IF n \in names THEN c[n] + 1 ELSE c[n]]

\* Values MQTT_PROTO_VERSION can take in the model ("unset": not defined).
ProtoTags == {"unset", "MQTTv311", "MQTTv5"}
\* str.lower() on the tags above.
Lower(s) == CASE s = "MQTTv311" -> "mqttv311"
              [] s = "MQTTv5" -> "mqttv5"
              [] OTHER -> s
ProtoVersionRejectedLax(tag) ==
    tag # "unset" /\ Lower(tag) \notin {"mqttv31", "mqttv311", "mqttv5"}

\* The if/elif/else on envProtoVersion.lower(): TRUE when exit(...) is hit.
ProtoVersionRejected(tag) ==
    tag # "unset" /\ Lower(tag) # "mqttv31" /\ Lower(tag) # "mqttv311"

\* Values MQTT_QOS can take in the model; int() accepts any integer.  The
\* client treats qos 2 as it treats qos 1 (queued while not connected).
QoSValues == {0, 1, 3}

\* RawEvents the device source delivers inside the running loop.
Hdr(m, p, s) == [mfrid |-> m, productid |-> p, sensorid |-> s]
LoopMsgs ==
    {[header |-> Hdr(4, 2, 16777210),
      recs |-> <<[paramid |-> "VOLTAGE", value |-> 244],
                 [paramid |-> "REAL_POWER", value |-> 4]>>],
     [header |-> Hdr(99, 1, 1337),
      recs |-> <<[paramid |-> "SWITCH_STATE", value |-> 1],
                 [paramid |-> "JOIN"]>>]}

Starting == {"config", "mqtt_client", "mqtt_settings", "mqtt_connect_async",
             "mqtt_loop_start", "energenie_init", "when_incoming"}
Running == {"loop", "sleep"}

Init ==
    /\ pc = "config"
    /\ exitPending = None
    /\ exitCode = None
    /\ envProtoVersion \in ProtoTags
    /\ mqttQoS \in QoSValues
    /\ calls = [n \in CallNames |-> 0]
    /\ will = None
    /\ log = {}
    /\ netState = "none"
    /\ connResults = <<>>
    /\ interrupted = FALSE
    /\ delivered = <<>>
    /\ published = <<>>
    /\ clientMsgs = <<>>
    /\ dMsg = None
    /\ dOut = None
    /\ dSeen = {}

\* exit(status) on the main thread outside any try/finally.
Exit(status) ==
    /\ pc' = "exited"
    /\ exitCode' = Some(status)

\* ------------------------------------------------ main thread: Starting
\* Module level: the MQTT_PROTO_VERSION check.
Config ==
    /\ pc = "config"
    /\ IF ProtoVersionRejected(envProtoVersion)
         THEN /\ Exit(1)
              /\ log' = log \cup {"MQTT_PROTO_VERSION env var must be ..."}
         ELSE /\ pc' = "mqtt_client"
              /\ UNCHANGED <<exitCode, log>>
    /\ UNCHANGED <<exitPending, envProtoVersion, mqttQoS, calls, netState,
                   connResults, interrupted, delivered, published, clientMsgs,
                   dMsg, dOut, dSeen, will>>

\* mqtt.Client(...), on_connect / on_disconnect assignment.
MqttClient ==
    /\ pc = "mqtt_client"
    /\ pc' = "mqtt_settings"
    /\ calls' = Called(calls, {"Client"})
    /\ UNCHANGED <<exitPending, exitCode, envProtoVersion, mqttQoS, log,
                   netState, connResults, interrupted, delivered, published,
                   clientMsgs, dMsg, dOut, dSeen, will>>

\* paho's argument check shared by will_set and publish.
QoSInvalid(qos) == qos < 0 \/ qos > 2

MqttSettingsFailureContinues ==
    /\ pc = "mqtt_settings"
    /\ IF QoSInvalid(mqttQoS)
         THEN /\ calls' = Called(calls, {"username_pw_set",
                                         "max_inflight_messages_set"})
              /\ pc' = "mqtt_connect_async"
              /\ log' = log \cup {"MQTT initialisation failed ..."}
              /\ UNCHANGED <<exitCode, will>>
         ELSE /\ calls' = Called(calls, {"username_pw_set",
                                         "max_inflight_messages_set",
                                         "will_set", "reconnect_delay_set"})
              /\ will' = Some([topic |-> mqttTopic \o "/lwt",
                               payload |-> mqttWillPayload,
                               qos |-> mqttQoS, retain |-> mqttRetain])
              /\ pc' = "mqtt_connect_async"
              /\ UNCHANGED <<exitCode, log>>
    /\ UNCHANGED <<exitPending, envProtoVersion, mqttQoS, netState,
                   connResults, interrupted, delivered, published, clientMsgs,
                   dMsg, dOut, dSeen>>

\* username_pw_set, max_inflight_messages_set, will_set,
\* reconnect_delay_set; will_set raises ValueError on an invalid qos and
\* the except clause turns it into exit("MQTT initialisation failed ...").
MqttSettings ==
    /\ pc = "mqtt_settings"
    /\ IF QoSInvalid(mqttQoS)
         THEN /\ calls' = Called(calls, {"username_pw_set",
                                         "max_inflight_messages_set"})
              /\ Exit(1)
              /\ log' = log \cup {"MQTT initialisation failed ..."}
              /\ UNCHANGED will
         ELSE /\ calls' = Called(calls, {"username_pw_set",
                                         "max_inflight_messages_set",
                                         "will_set", "reconnect_delay_set"})
              /\ will' = Some([topic |-> mqttTopic \o "/lwt",
                               payload |-> mqttWillPayload,
                               qos |-> mqttQoS, retain |-> mqttRetain])
              /\ pc' = "mqtt_connect_async"
              /\ UNCHANGED <<exitCode, log>>
    /\ UNCHANGED <<exitPending, envProtoVersion, mqttQoS, netState,
                   connResults, interrupted, delivered, published, clientMsgs,
                   dMsg, dOut, dSeen>>

\* print("Connecting to MQTT..."); mqttClient.connect_async(...)
MqttConnectAsync ==
    /\ pc = "mqtt_connect_async"
    /\ pc' = "mqtt_loop_start"
    /\ calls' = Called(calls, {"connect_async"})
    /\ log' = log \cup {"Connecting to MQTT..."}
    /\ UNCHANGED <<exitPending, exitCode, envProtoVersion, mqttQoS,
                   netState, connResults, interrupted, delivered, published,
                   clientMsgs, dMsg, dOut, dSeen, will>>

\* mqttClient.loop_start(): the network thread starts, not yet connected.
MqttLoopStart ==
    /\ pc = "mqtt_loop_start"
    /\ pc' = "energenie_init"
    /\ calls' = Called(calls, {"loop_start"})
    /\ netState' = "down"
    /\ UNCHANGED <<exitPending, exitCode, envProtoVersion, mqttQoS, log,
                   connResults, interrupted, delivered, published, clientMsgs,
                   dMsg, dOut, dSeen, will>>

EnergenieInitWaitsForConnect ==
    /\ pc = "energenie_init"
    /\ netState = "connected"
    /\ calls' = Called(calls, {"init"})
    /\ log' = log \cup {"Initialising Energenie..."}
    /\ \/ pc' = "when_incoming" /\ UNCHANGED exitCode
       \/ Exit(1)
    /\ UNCHANGED <<exitPending, envProtoVersion, mqttQoS, netState,
                   connResults, interrupted, delivered, published, clientMsgs,
                   dMsg, dOut, dSeen, will>>

\* print("Initialising Energenie..."); energenie.init(), which may raise:
\* outside any try, the exception ends the process with status 1.
EnergenieInit ==
    /\ pc = "energenie_init"
    /\ calls' = Called(calls, {"init"})
    /\ log' = log \cup {"Initialising Energenie..."}
    /\ \/ pc' = "when_incoming" /\ UNCHANGED exitCode
       \/ Exit(1)
    /\ UNCHANGED <<exitPending, envProtoVersion, mqttQoS, netState,
                   connResults, interrupted, delivered, published, clientMsgs,
                   dMsg, dOut, dSeen, will>>

\* energenie.fsk_router.when_incoming(energenie_incoming); the try block
\* of the run loop is entered next.
WhenIncoming ==
    /\ pc = "when_incoming"
    /\ pc' = "loop"
    /\ calls' = Called(calls, {"when_incoming"})
    /\ UNCHANGED <<exitPending, exitCode, envProtoVersion, mqttQoS, log,
                   netState, connResults, interrupted, delivered, published,
                   clientMsgs, dMsg, dOut, dSeen, will>>

\* KeyboardInterrupt outside the run loop's try: "except Exception" does
\* not catch it, nothing else does; the interpreter exits with status 1
\* (130 when it re-raises SIGINT) and energenie.finished() is not called.
UncaughtInterruptStatus == {1, 130}

InterruptStarting ==
    /\ pc \in Starting
    /\ \E status \in UncaughtInterruptStatus : Exit(status)
    /\ interrupted' = TRUE
    /\ UNCHANGED <<exitPending, envProtoVersion, mqttQoS, calls, log,
                   netState, connResults, delivered, published,
                   clientMsgs, dMsg, dOut, dSeen, will>>

\* ---------------------------------------------------- paho client: publish
\* What Client.publish does with a message: sent when connected; when not
\* connected a qos 0 message is dropped and a qos>0 message stays in the
\* client's outgoing queue; both return MQTT_ERR_NO_CONN.
ClientPublishDropsWhenDown(qos, connected) ==
    IF connected THEN [state |-> "sent", rc |-> "MQTT_ERR_SUCCESS"]
    ELSE [state |-> "dropped", rc |-> "MQTT_ERR_NO_CONN"]

ClientPublish(qos, connected) ==
    IF connected THEN [state |-> "sent", rc |-> "MQTT_ERR_SUCCESS"]
    ELSE IF qos = 0 THEN [state |-> "dropped", rc |-> "MQTT_ERR_NO_CONN"]
    ELSE [state |-> "queued", rc |-> "MQTT_ERR_NO_CONN"]

\* On a successful connect the client sends every queued message.
ClientFlush(msgs) ==
    [i \in DOMAIN msgs |->
        IF msgs[i].state = "queued" THEN [msgs[i] EXCEPT !.state = "sent"]
        ELSE msgs[i]]

\* ------------------------------------------------- main thread: Running
\* The qos argument of the publish call: qos=mqttQoS.
PublishQoS == mqttQoS

EnergenieIncomingOnlyWhenConnected(message) ==
    /\ pc = "loop"
    /\ Len(delivered) < MaxEvents
    /\ LET data == getDataFromMessage(message, Len(delivered) + 1)
           call == [topic |-> buildTopic(data), payload |-> jsonDumps(data),
                    qos |-> PublishQoS, retain |-> mqttRetain]
           res == ClientPublish(call.qos, netState = "connected")
       IN  /\ delivered' = Append(delivered, message)
           /\ IF netState = "connected"
                THEN /\ published' = Append(published, call)
                     /\ clientMsgs' = Append(clientMsgs,
                                             [state |-> res.state, rc |-> res.rc,
                                              qos |-> call.qos,
                                              down |-> netState # "connected",
                                              after |-> Len(connResults)])
                ELSE UNCHANGED <<published, clientMsgs>>
    /\ UNCHANGED <<pc, exitPending, exitCode, envProtoVersion, mqttQoS,
                   calls, log, netState, connResults, interrupted, dMsg, dOut,
                   dSeen, will>>

\* energenie.loop() delivers one RawEvent to energenie_incoming, which
\* decodes it, builds the topic and publishes; the value publish returns is
\* discarded.
EnergenieIncoming(message) ==
    /\ pc = "loop"
    /\ Len(delivered) < MaxEvents
    /\ LET data == getDataFromMessage(message, Len(delivered) + 1)
           call == [topic |-> buildTopic(data), payload |-> jsonDumps(data),
                    qos |-> PublishQoS, retain |-> mqttRetain]
           res == ClientPublish(call.qos, netState = "connected")
       IN  /\ delivered' = Append(delivered, message)
           /\ published' = Append(published, call)
           /\ clientMsgs' = Append(clientMsgs,
                                   [state |-> res.state, rc |-> res.rc,
                                    qos |-> call.qos,
                                    down |-> netState # "connected",
                                    after |-> Len(connResults)])
    /\ UNCHANGED <<pc, exitPending, exitCode, envProtoVersion, mqttQoS,
                   calls, log, netState, connResults, interrupted,
                   dMsg, dOut, dSeen, will>>

\* energenie.loop() returns; time.sleep(1) follows.
EnergenieLoopReturn ==
    /\ pc = "loop"
    /\ pc' = "sleep"
    /\ UNCHANGED <<exitPending, exitCode, envProtoVersion, mqttQoS, calls,
                   log, netState, connResults, interrupted, delivered, published,
                   clientMsgs, dMsg, dOut, dSeen, will>>

\* time.sleep(1) returns; next iteration of "while True".
Sleep ==
    /\ pc = "sleep"
    /\ pc' = "loop"
    /\ UNCHANGED <<exitPending, exitCode, envProtoVersion, mqttQoS, calls,
                   log, netState, connResults, interrupted, delivered, published,
                   clientMsgs, dMsg, dOut, dSeen, will>>

\* KeyboardInterrupt inside the run loop's try: the except clause prints
\* and calls exit(0); the SystemExit passes through the finally clause.
InterruptRunning ==
    /\ pc \in Running
    /\ pc' = "finally"
    /\ exitPending' = Some(0)
    /\ log' = log \cup {"Interrupted. Exiting."}
    /\ interrupted' = TRUE
    /\ UNCHANGED <<exitCode, envProtoVersion, mqttQoS, calls, netState,
                   connResults, delivered, published, clientMsgs,
                   dMsg, dOut, dSeen, will>>

\* energenie.loop() (or the handler it calls) raises an Exception: no
\* except clause matches, the traceback ends the process with status 1
\* after the finally clause.
RunningError ==
    /\ pc = "loop"
    /\ pc' = "finally"
    /\ exitPending' = Some(1)
    /\ UNCHANGED <<exitCode, envProtoVersion, mqttQoS, calls, log, netState,
                   connResults, interrupted, delivered, published, clientMsgs,
                   dMsg, dOut, dSeen, will>>

FinallyOnlyAfterInterrupt ==
    /\ pc = "finally"
    /\ calls' = IF exitPending = Some(0) THEN Called(calls, {"finished"})
                ELSE calls
    /\ pc' = "exited"
    /\ exitCode' = exitPending
    /\ UNCHANGED <<exitPending, envProtoVersion, mqttQoS, log, netState,
                   connResults, interrupted, delivered, published, clientMsgs,
                   dMsg, dOut, dSeen, will>>

\* finally: energenie.finished(); then the pending exit takes effect.
Finally ==
    /\ pc = "finally"
    /\ calls' = Called(calls, {"finished"})
    /\ pc' = "exited"
    /\ exitCode' = exitPending
    /\ UNCHANGED <<exitPending, envProtoVersion, mqttQoS, log, netState,
                   connResults, interrupted, delivered, published, clientMsgs,
                   dMsg, dOut, dSeen, will>>

\* ------------------------------------------------- paho network thread
\* CONNACK reason codes: 0 accepted, 1..5 refused, 6 not a known code.
ConnackRcs == 0 .. 6

IsPermafailWith3(rc) == rc = 1 \/ rc = 2 \/ rc = 3 \/ rc = 4 \/ rc = 5

IsPermafailWithout5(rc) == rc = 1 \/ rc = 2 \/ rc = 4

IsPermafailUnlessRetryable(rc) == rc # 0 /\ rc # 3

\* The codes for which mqttOnConnect sets permafail = True.
IsPermafail(rc) == rc = 1 \/ rc = 2 \/ rc = 4 \/ rc = 5

\* The line mqttOnConnect prints for rc.
ConnectLogLine(rc) ==
    IF rc = 0 THEN "MQTT connected!"
    ELSE IF rc = 1 THEN "refused - incorrect protocol version"
    ELSE IF rc = 2 THEN "refused - invalid client identifier"
    ELSE IF rc = 3 THEN "refused - server unavailable"
    ELSE IF rc = 4 THEN "refused - bad username or password"
    ELSE IF rc = 5 THEN "refused - not authorised"
    ELSE "unrecognised error code"

\* The thread is alive and the process has not exited.
NetThreadRuns == netState \in {"down", "connected", "closing"} /\ pc # "exited"

\* A connection attempt that gets a CONNACK: the client calls
\* mqttOnConnect(rc) on the network thread.  exit(...) there raises
\* SystemExit in that thread only: the thread ends, the main thread and
\* the process go on.
MqttOnConnect(rc) ==
    /\ NetThreadRuns
    /\ netState = "down"
    /\ Len(connResults) < MaxAttempts
    /\ connResults' = Append(connResults, [kind |-> "connack", rc |-> rc])
    /\ log' = log \cup {ConnectLogLine(rc)}
    /\ IF rc = 0
         THEN /\ netState' = "connected"
              /\ clientMsgs' = ClientFlush(clientMsgs)
         ELSE /\ netState' = IF IsPermafail(rc) THEN "dead" ELSE "closing"
              /\ UNCHANGED clientMsgs
    /\ UNCHANGED <<pc, exitPending, exitCode, envProtoVersion, mqttQoS,
                   calls, interrupted, delivered, published, dMsg,
                   dOut, dSeen, will>>

\* A connection attempt that fails on the network (no CONNACK): no
\* callback, the client waits the reconnect delay and tries again.
NetFault ==
    /\ NetThreadRuns
    /\ netState = "down"
    /\ Len(connResults) < MaxAttempts
    /\ connResults' = Append(connResults, [kind |-> "fault"])
    /\ UNCHANGED <<pc, exitPending, exitCode, envProtoVersion, mqttQoS,
                   calls, log, netState, interrupted, delivered, published,
                   clientMsgs, dMsg, dOut, dSeen, will>>

\* The established connection is lost.
ConnectionDrop ==
    /\ NetThreadRuns
    /\ netState = "connected"
    /\ netState' = "closing"
    /\ UNCHANGED <<pc, exitPending, exitCode, envProtoVersion, mqttQoS,
                   calls, log, connResults, interrupted, delivered, published,
                   clientMsgs, dMsg, dOut, dSeen, will>>

\* Reason codes on_disconnect is called with; 0 only follows a call of
\* disconnect(), which the program never makes.
DisconnectRcs == {1, 5, 7}

MqttOnDisconnectReappliesSettings(rc) ==
    /\ NetThreadRuns
    /\ netState = "closing"
    /\ netState' = "down"
    /\ calls' = Called(calls, {"will_set", "reconnect_delay_set"})
    /\ log' = log \cup {IF rc = 0 THEN "MQTT disconnected in response to a call to disconnect()"
                        ELSE "MQTT disconnected unexpectedly!"}
    /\ UNCHANGED <<pc, exitPending, exitCode, envProtoVersion, mqttQoS,
                   connResults, interrupted, delivered, published,
                   clientMsgs, dMsg, dOut, dSeen, will>>

\* mqttOnDisconnect(rc) after a lost connection or a refused CONNACK; the
\* client then reconnects.
MqttOnDisconnect(rc) ==
    /\ NetThreadRuns
    /\ netState = "closing"
    /\ netState' = "down"
    /\ log' = log \cup {IF rc = 0 THEN "MQTT disconnected in response to a call to disconnect()"
                        ELSE "MQTT disconnected unexpectedly!"}
    /\ UNCHANGED <<pc, exitPending, exitCode, envProtoVersion, mqttQoS,
                   calls, connResults, interrupted, delivered, published,
                   clientMsgs, dMsg, dOut, dSeen, will>>

\* ---------------------------------------------------------- specification
Next ==
    \/ Config
    \/ MqttClient
    \/ MqttSettings
    \/ MqttConnectAsync
    \/ MqttLoopStart
    \/ EnergenieInit
    \/ WhenIncoming
    \/ InterruptStarting
    \/ \E message \in LoopMsgs : EnergenieIncoming(message)
    \/ EnergenieLoopReturn
    \/ Sleep
    \/ InterruptRunning
    \/ RunningError
    \/ Finally
    \/ \E rc \in ConnackRcs : MqttOnConnect(rc)
    \/ NetFault
    \/ ConnectionDrop
    \/ \E rc \in DisconnectRcs : MqttOnDisconnect(rc)

Spec == Init /\ [][Next]_vars

\* ------------------------------------------- specification of the decoder
\* RawEvents the decoder is applied to: each header below with every
\* sequence of at most MaxRecs parameter pairs, each of any kind, with a
\* value or without one.  The device source builds the event pair by pair.
DecValues == {0, 1}
DecTimes == {1, 2}
DecHeaders == {Hdr(4, 1, 1337), Hdr(99, 6, 7)}
DecRecs == [paramid : ParamIds] \cup [paramid : ParamIds, value : DecValues]

\* The state outside the decoder, held fixed while the decoder and the
\* handler are examined on their own.
MainIdle ==
    /\ pc = "loop"
    /\ exitPending = None
    /\ exitCode = None
    /\ envProtoVersion = "unset"
    /\ mqttQoS = 1
    /\ calls = [n \in CallNames |-> 0]
    /\ will = None
    /\ log = {}
    /\ netState = "down"
    /\ connResults = <<>>
    /\ interrupted = FALSE
    /\ delivered = <<>>
    /\ published = <<>>
    /\ clientMsgs = <<>>

InitDecode ==
    /\ MainIdle
    /\ dMsg \in [header : DecHeaders, recs : {<<>>}]
    /\ dOut = None
    /\ dSeen = {}

\* The device source adds one parameter pair to the event it is receiving.
AddRec(rec) ==
    /\ dOut = None
    /\ Len(dMsg.recs) < MaxRecs
    /\ dMsg' = [dMsg EXCEPT !.recs = Append(@, rec)]
    /\ UNCHANGED <<mainVars, dOut, dSeen>>

\* data = getDataFromMessage(message), at clock reading now.
Decode(now) ==
    /\ dOut = None
    /\ dOut' = Some(getDataFromMessage(dMsg, now))
    /\ UNCHANGED <<mainVars, dMsg, dSeen>>

NextDecode ==
    \/ \E rec \in DecRecs : AddRec(rec)
    \/ \E now \in DecTimes : Decode(now)

SpecDecode == InitDecode /\ [][NextDecode]_vars

\* ------------------------------------------- specification of the handler
\* The handler applied to a series of events: for each it decodes the event
\* and builds the topic; dSeen keeps what it made of every event so far.
MaxHandled == 3     \* distinct handler results kept
HandlerHeaders == {Hdr(4, 1, 1337), Hdr(99, 1, 1337), Hdr(4, 6, 7),
                   Hdr(99, 6, 7)}
HandlerRecs == {<<[paramid |-> "VOLTAGE", value |-> 244],
                  [paramid |-> "REAL_POWER", value |-> 4]>>,
                <<[paramid |-> "DOOR_SENSOR", value |-> 1]>>}
HandlerMsgs == [header : HandlerHeaders, recs : HandlerRecs]

InitHandler ==
    /\ MainIdle
    /\ dMsg = None
    /\ dOut = None
    /\ dSeen = {}

\* energenie_incoming up to the publish call: data =
\* getDataFromMessage(message), then the topic built from data.
Handle(message, now) ==
    /\ Cardinality(dSeen) < MaxHandled
    /\ LET data == getDataFromMessage(message, now)
       IN  /\ dMsg' = message
           /\ dOut' = Some(data)
           /\ dSeen' = dSeen \cup {[msg |-> message, data |-> data,
                                    topic |-> buildTopic(data)]}
    /\ UNCHANGED mainVars

NextHandler == \E message \in HandlerMsgs, now \in DecTimes : Handle(message, now)

SpecHandler == InitHandler /\ [][NextHandler]_vars

\* ------------------------------------------------------------ properties
\* mqttOnConnect has been called with one of the permanent reason codes.
PermanentRcs == {1, 2, 4, 5}
PermafailReported ==
    \E i \in DOMAIN connResults :
        connResults[i].kind = "connack" /\ connResults[i].rc \in PermanentRcs

\* The process has exited after having entered the run loop.
LeftRunning == pc = "exited" /\ calls["when_incoming"] > 0

\* C1: once the connect callback has reported a permanent failure
\* (reason 1, 2, 4 or 5) the process terminates with a non-zero status:
\* no device event is serviced or published afterwards, and the exit
\* status is never 0.
C1_PermafailTerminatesProcess ==
    [][PermafailReported =>
         /\ delivered' = delivered
         /\ published' = published
         /\ pc' = "exited" => exitCode' # Some(0)]_vars

\* C2: whenever the process has exited after leaving Running, the broker
\* connection was explicitly disconnected before the exit.
C2_DisconnectBeforeExit ==
    LeftRunning => calls["disconnect"] > 0

\* C3: on every exit from Running (interrupt or error) the device-source
\* teardown has been executed exactly once before the process exits, and
\* it has not been executed while the loop is still servicing the source.
C3_TeardownOnEveryExit ==
    /\ LeftRunning => calls["finished"] = 1
    /\ pc \in Running => calls["finished"] = 0

\* C3 witness: the process left Running through an error (not an
\* interrupt), ran the teardown and exited with status 1.
C3_Witness ==
    /\ LeftRunning
    /\ ~interrupted
    /\ exitCode = Some(1)
    /\ calls["finished"] = 1

\* The connection was established by an attempt made after the i-th
\* publish call.
ConnectedAfter(i) ==
    \E j \in DOMAIN connResults :
        /\ j > clientMsgs[i].after
        /\ connResults[j].kind = "connack"
        /\ connResults[j].rc = 0

\* C4: a qos 1 message published while the connection is down is never
\* dropped: it is queued until the connection is established, and it has
\* been delivered exactly when the connection was established afterwards.
C4_QueuedThenDelivered ==
    \A i \in DOMAIN clientMsgs :
        (clientMsgs[i].qos = 1 /\ clientMsgs[i].down) =>
            /\ clientMsgs[i].state \in {"queued", "sent"}
            /\ clientMsgs[i].state = "sent" <=> ConnectedAfter(i)

\* C4 witness: a qos 1 message published while down has been delivered
\* after a later connect.
C4_Witness ==
    \E i \in DOMAIN clientMsgs :
        /\ clientMsgs[i].qos = 1
        /\ clientMsgs[i].down
        /\ clientMsgs[i].state = "sent"
        /\ ConnectedAfter(i)

\* C5: a process that received an interrupt signal at any time after its
\* start ends with exit code 0.
C5_InterruptExitsZero ==
    (interrupted /\ pc = "exited") => exitCode = Some(0)

\* A connection attempt outcome that is retryable: a network fault, or a
\* CONNACK with reason 3 (server unavailable).
Retryable(res) ==
    res.kind = "fault" \/ (res.kind = "connack" /\ res.rc = 3)

\* C6: a connect failure with a retryable reason does not terminate
\* anything: the step that reports it leaves the main thread where it is
\* (no exit, no pending exit) and the network thread alive to retry.
C6_RetryableKeepsRunning ==
    [][(/\ Len(connResults') = Len(connResults) + 1
        /\ Retryable(connResults'[Len(connResults')]))
       => /\ pc' = pc
          /\ exitCode' = exitCode
          /\ exitPending' = exitPending
          /\ netState' \in {"down", "closing"}]_vars

\* C6 witness: an event was published after mqttOnConnect had reported
\* reason 3, with the loop still running and the network thread retrying.
C6_Witness ==
    /\ pc \in Running
    /\ netState = "down"
    /\ \E i \in DOMAIN clientMsgs :
         /\ clientMsgs[i].after >= 1
         /\ connResults[clientMsgs[i].after].kind = "connack"
         /\ connResults[clientMsgs[i].after].rc = 3

\* C7: once the connect callback has reported a permanent failure, no
\* further connection attempt is made.
C7_NoAttemptAfterPermafail ==
    [][PermafailReported => connResults' = connResults]_vars

\* C7 witness: a permanent failure was reported, the process is still in
\* its run loop and the attempt budget is not used up, yet the network
\* thread has ended.
C7_Witness ==
    /\ PermafailReported
    /\ pc \in Running
    /\ Len(connResults) < MaxAttempts
    /\ netState = "dead"

\* C8: a publish call that returns an error result is surfaced: the step
\* that makes it writes a log line or raises into the event loop.
C8_PublishFailureSurfaced ==
    [][(/\ Len(clientMsgs') = Len(clientMsgs) + 1
        /\ clientMsgs'[Len(clientMsgs')].rc # "MQTT_ERR_SUCCESS")
       => (log' # log \/ pc' = "finally")]_vars

FlagNames == {"HasSwitch", "HasVoltage", "HasFrequency", "HasReactivePower",
              "HasRealPower", "HasApparentPower", "HasCurrent",
              "HasTemperature"}
ValueNames == {"SwitchState", "Voltage", "Frequency", "ReactivePower",
               "RealPower", "ApparentPower", "Current", "Temperature"}

\* C9: every decoded record has all eight presence flags, each a boolean,
\* and all eight telemetry fields, each a value or None.
C9_DecodeFullyPopulated ==
    dOut # None =>
        /\ FlagNames \cup ValueNames \subseteq DOMAIN dOut[1]
        /\ \A f \in FlagNames : dOut[1][f] \in BOOLEAN
        /\ \A v \in ValueNames :
               dOut[1][v] = None \/ dOut[1][v] \in {Some(x) : x \in DecValues}

\* C9 witness: a record decoded from an event holding a pair of an
\* unrecognised kind and a pair without a value.
C9_Witness ==
    /\ dOut # None
    /\ \E i \in DOMAIN dMsg.recs : dMsg.recs[i].paramid \notin KnownParams
    /\ \E i \in DOMAIN dMsg.recs :
         dMsg.recs[i].paramid \in KnownParams /\ "value" \notin DOMAIN dMsg.recs[i]

\* The kinds that map to each telemetry field, with the field's flag.
FieldTable ==
    {[flag |-> "HasSwitch", field |-> "SwitchState",
      kinds |-> {"SWITCH_STATE", "DOOR_SENSOR"}],
     [flag |-> "HasVoltage", field |-> "Voltage", kinds |-> {"VOLTAGE"}],
     [flag |-> "HasFrequency", field |-> "Frequency", kinds |-> {"FREQUENCY"}],
     [flag |-> "HasReactivePower", field |-> "ReactivePower",
      kinds |-> {"REACTIVE_POWER"}],
     [flag |-> "HasRealPower", field |-> "RealPower", kinds |-> {"REAL_POWER"}],
     [flag |-> "HasApparentPower", field |-> "ApparentPower",
      kinds |-> {"APPARENT_POWER"}],
     [flag |-> "HasCurrent", field |-> "Current", kinds |-> {"CURRENT"}],
     [flag |-> "HasTemperature", field |-> "Temperature",
      kinds |-> {"TEMPERATURE"}]}

HasKind(msg, kinds) == \E i \in DOMAIN msg.recs : msg.recs[i].paramid \in kinds

\* C10: in a decoded record each presence flag is true exactly when the
\* event has a pair of a kind mapping to that field; with no such pair the
\* flag is false and the field is None.
C10_FlagIffPairPresent ==
    dOut # None =>
        \A t \in FieldTable :
            /\ dOut[1][t.flag] = HasKind(dMsg, t.kinds)
            /\ ~HasKind(dMsg, t.kinds) => dOut[1][t.field] = None

\* C10 witness: a record decoded from an event with a door-sensor pair and
\* no voltage pair: the switch flag is set, the voltage flag is not.
C10_Witness ==
    /\ dOut # None
    /\ HasKind(dMsg, {"DOOR_SENSOR"})
    /\ ~HasKind(dMsg, {"SWITCH_STATE", "VOLTAGE"})
    /\ dOut[1]["HasSwitch"]
    /\ ~dOut[1]["HasVoltage"]
    /\ dOut[1]["Voltage"] = None

\* The index of the last pair of msg whose kind is in kinds.
LastOfKinds(msg, kinds) ==
    CHOOSE i \in DOMAIN msg.recs :
        /\ msg.recs[i].paramid \in kinds
        /\ \A j \in DOMAIN msg.recs : msg.recs[j].paramid \in kinds => j <= i

\* The value a pair carries: its value, or None when it has none.
PairValue(pair) == IF "value" \in DOMAIN pair THEN <<pair.value>> ELSE <<>>

\* C11: each field of a decoded record holds the value of the last pair of
\* the event that maps to the field, and its flag is true; in particular
\* with a switch-state and a door-sensor pair, in either order and with
\* other pairs between them, the later of the two gives the switch/contact
\* value.
C11_LastPairWins ==
    dOut # None =>
        \A t \in FieldTable :
            HasKind(dMsg, t.kinds) =>
                /\ dOut[1][t.flag] = TRUE
                /\ dOut[1][t.field] =
                       PairValue(dMsg.recs[LastOfKinds(dMsg, t.kinds)])

\* C11 witness: a switch-state pair, another pair, then a door-sensor pair
\* with a different value; the record holds the door-sensor value.
C11_Witness ==
    /\ dOut # None
    /\ Len(dMsg.recs) = 3
    /\ dMsg.recs[1] = [paramid |-> "SWITCH_STATE", value |-> 1]
    /\ dMsg.recs[2].paramid = "VOLTAGE"
    /\ dMsg.recs[3] = [paramid |-> "DOOR_SENSOR", value |-> 0]
    /\ dOut[1]["HasSwitch"]
    /\ dOut[1]["SwitchState"] = Some(0)

\* The known-device catalogue: manufacturer names, product codes and names.
CatalogManufacturers == {[id |-> 4, name |-> "Energenie"]}
CatalogProducts ==
    {[id |-> 1, code |-> "MIHO004", name |-> "Monitor"],
     [id |-> 2, code |-> "MIHO005", name |-> "AdaptorPlus"],
     [id |-> 3, code |-> "MIHO013", name |-> "eTRV"],
     [id |-> 5, code |-> "MIHO006", name |-> "HomeMonitor"],
     [id |-> 12, code |-> "MIHO032", name |-> "MotionSensor"],
     [id |-> 13, code |-> "MIHO033", name |-> "OpenSensor"]}

\* The field of the catalogue entry with this id, "UNKNOWN" without one.
CatalogOrUnknown(table, id, field) ==
    IF \E e \in table : e.id = id
      THEN (CHOOSE e \in table : e.id = id)[field]
      ELSE "UNKNOWN"

\* prefix/manufacturerId/manufacturerName/productId/productCode/
\* productName/sensorId for an identity triple.
ExpectedTopic(h) ==
    "energenie/" \o ToString(h.mfrid) \o "/"
        \o CatalogOrUnknown(CatalogManufacturers, h.mfrid, "name") \o "/"
        \o ToString(h.productid) \o "/"
        \o CatalogOrUnknown(CatalogProducts, h.productid, "code") \o "/"
        \o CatalogOrUnknown(CatalogProducts, h.productid, "name") \o "/"
        \o ToString(h.sensorid)

StripTime(data) ==
    [k \in DOMAIN data \ {"Timestamp", "DateTime"} |-> data[k]]

\* C13: two decodings of the same event, whatever was decoded between
\* them, give records equal in every field but the two timestamps.
C13_DecodeStateless ==
    \A e1, e2 \in dSeen :
        e1.msg = e2.msg => StripTime(e1.data) = StripTime(e2.data)

\* C13 witness: the same event decoded at two different times, with a
\* different event decoded as well.
C13_Witness ==
    \E e1, e2, e3 \in dSeen :
        /\ e1.msg = e2.msg
        /\ e1.data.Timestamp # e2.data.Timestamp
        /\ e3.msg.recs # e1.msg.recs
        /\ StripTime(e1.data) = StripTime(e2.data)

\* MQTT_PROTO_VERSION is set to something other than the two valid tags.
InvalidProtoTag == envProtoVersion \notin {"unset", "MQTTv31", "MQTTv311"}

C15_OnePublishPerEvent ==
    /\ Len(published) = Len(delivered)
    /\ \A i \in DOMAIN delivered :
         /\ published[i].topic = ExpectedTopic(delivered[i].header)
         /\ published[i].payload =
                jsonDumps(getDataFromMessage(delivered[i],
                                             published[i].payload.json.Timestamp))
         /\ published[i].payload.json.SensorID = delivered[i].header.sensorid

\* C15 witness: two different events were delivered while the connection
\* was down and two publish calls with different topics were made.
C15_Witness ==
    /\ Len(delivered) = 2
    /\ delivered[1] # delivered[2]
    /\ Len(published) = 2
    /\ published[1].topic # published[2].topic
    /\ \A i \in DOMAIN clientMsgs : clientMsgs[i].down

\* C16: a pair of a recognised kind without a value still sets its field's
\* flag, and leaves the field None unless a later pair of the field stores
\* a value: a value stored by an earlier pair does not survive it.
C16_MissingValuePresentButNull ==
    dOut # None =>
        \A t \in FieldTable : \A i \in DOMAIN dMsg.recs :
            (dMsg.recs[i].paramid \in t.kinds /\ "value" \notin DOMAIN dMsg.recs[i])
                => /\ dOut[1][t.flag] = TRUE
                   /\ (\A j \in DOMAIN dMsg.recs :
                          j > i => dMsg.recs[j].paramid \notin t.kinds)
                        => dOut[1][t.field] = None

\* C16 witness: a voltage pair with a value followed by a voltage pair
\* without one; the record has the voltage flag set and no voltage.
C16_Witness ==
    /\ dOut # None
    /\ \E i, j \in DOMAIN dMsg.recs :
         /\ i < j
         /\ dMsg.recs[i].paramid = "VOLTAGE" /\ "value" \in DOMAIN dMsg.recs[i]
         /\ dMsg.recs[j].paramid = "VOLTAGE" /\ "value" \notin DOMAIN dMsg.recs[j]
         /\ \A k \in DOMAIN dMsg.recs : k > j => dMsg.recs[k].paramid # "VOLTAGE"
    /\ dOut[1]["HasVoltage"]
    /\ dOut[1]["Voltage"] = None

\* The event with its pairs of unrecognised kinds removed.
WithoutUnknownPairs(msg) ==
    [msg EXCEPT !.recs = SelectSeq(@, LAMBDA rec : rec.paramid \in KnownParams)]

\* C17: the record decoded from an event equals the record decoded at the
\* same time from the event without its pairs of unrecognised kinds, and a
\* manufacturer or product id outside the catalogue gives None names.
C17_UnknownIgnored ==
    dOut # None =>
        /\ dOut[1] = getDataFromMessage(WithoutUnknownPairs(dMsg),
                                        dOut[1].Timestamp)
        /\ (\A e \in CatalogManufacturers : e.id # dMsg.header.mfrid)
              => dOut[1].ManufacturerName = None
        /\ (\A e \in CatalogProducts : e.id # dMsg.header.productid)
              => dOut[1].ProductCode = None /\ dOut[1].ProductName = None

\* C17 witness: a record decoded from an event of an unknown manufacturer
\* and product that holds a pair of an unrecognised kind between two
\* recognised ones.
C17_Witness ==
    /\ dOut # None
    /\ dMsg.header.mfrid = 99
    /\ dMsg.header.productid = 6
    /\ Len(dMsg.recs) = 3
    /\ dMsg.recs[1].paramid \in KnownParams
    /\ dMsg.recs[2].paramid \notin KnownParams
    /\ dMsg.recs[3].paramid \in KnownParams
    /\ dOut[1].ManufacturerName = None
    /\ dOut[1].ProductCode = None

\* The calls that apply a publisher setting.
PublisherSettings == {"username_pw_set", "max_inflight_messages_set",
                      "will_set", "reconnect_delay_set"}

\* C18: no publisher setting is ever applied twice; from the moment the
\* connection attempt is started each has been applied exactly once and
\* the last-will is on topic prefix + "/lwt"; before that moment no
\* connection attempt has been made.
C18_SettingsAppliedOnce ==
    /\ \A s \in PublisherSettings : calls[s] <= 1
    /\ calls["connect_async"] > 0 =>
         /\ \A s \in PublisherSettings : calls[s] = 1
         /\ will = Some([topic |-> "energenie/lwt", payload |-> "Offline",
                         qos |-> mqttQoS, retain |-> TRUE])
    /\ calls["connect_async"] = 0 =>
         /\ netState = "none"
         /\ connResults = <<>>

\* C18 witness: the connection was established, dropped and established
\* again, and each setting has still been applied once.
C18_Witness ==
    /\ Len(connResults) = 2
    /\ \A i \in DOMAIN connResults :
         connResults[i].kind = "connack" /\ connResults[i].rc = 0
    /\ netState = "connected"
    /\ \A s \in PublisherSettings : calls[s] = 1

\* C19: whatever the state of the broker connection, the main thread's
\* next step is never held back by it: connect_async and loop_start
\* return, device-source initialisation and handler registration can run,
\* and in the run loop an event can be handled, the loop call can return
\* and the sleep can end.
C19_ConnectNeverBlocksMain ==
    /\ pc = "mqtt_connect_async" => ENABLED MqttConnectAsync
    /\ pc = "mqtt_loop_start" => ENABLED MqttLoopStart
    /\ pc = "energenie_init" => ENABLED (EnergenieInit /\ pc' = "when_incoming")
    /\ pc = "when_incoming" => ENABLED WhenIncoming
    /\ (pc = "loop" /\ Len(delivered) < MaxEvents) =>
           \A message \in LoopMsgs : ENABLED EnergenieIncoming(message)
    /\ pc = "loop" => ENABLED EnergenieLoopReturn
    /\ pc = "sleep" => ENABLED Sleep

\* C19 witness: every connection attempt so far failed on the network, the
\* broker was never reached, and the run loop has handled an event.
C19_Witness ==
    /\ pc \in Running
    /\ Len(connResults) >= 1
    /\ \A i \in DOMAIN connResults : connResults[i].kind = "fault"
    /\ netState = "down"
    /\ calls["init"] = 1
    /\ Len(delivered) >= 1
    /\ Len(published) = Len(delivered)

\* The calls that make up the publisher's set-up.
PublisherSetup == {"Client", "connect_async", "loop_start"} \cup PublisherSettings

\* C20: once the incoming-event handler is registered, and so whenever a
\* publish call has been made, the broker client has been created and
\* configured and its network thread started; and when publisher
\* initialisation has failed the process has exited non-zero with the
\* device source never initialised and no event handled.
C20_NoPublishBeforeSetup ==
    /\ Len(published) > 0 => calls["when_incoming"] = 1
    /\ calls["when_incoming"] > 0 =>
         /\ \A c \in PublisherSetup : calls[c] = 1
         /\ netState # "none"
    /\ "MQTT initialisation failed ..." \in log =>
         /\ pc = "exited"
         /\ exitCode # None /\ exitCode[1] # 0
         /\ calls["init"] = 0
         /\ calls["when_incoming"] = 0
         /\ delivered = <<>>
         /\ published = <<>>

\* C20 witness: will_set raised on an invalid MQTT_QOS, initialisation was
\* reported failed and the process has exited with status 1.
C20_Witness ==
    /\ "MQTT initialisation failed ..." \in log
    /\ QoSInvalid(mqttQoS)
    /\ calls["Client"] = 1
    /\ calls["will_set"] = 0
    /\ pc = "exited"
    /\ exitCode = Some(1)

\* The step is a connect notification with a reason code outside 0..5.
UnrecognisedConnectStep ==
    /\ Len(connResults') = Len(connResults) + 1
    /\ connResults'[Len(connResults')].kind = "connack"
    /\ connResults'[Len(connResults')].rc \notin 0 .. 5

\* The step is a disconnect notification: the closing connection is
\* reported and the client goes on from there.
DisconnectStep == netState = "closing" /\ netState' # "closing"

\* C21: a connect notification with an unrecognised reason code, and every
\* disconnect notification, only adds a line to the log: the main thread
\* stays where it is with no exit and no pending exit, the network thread
\* stays alive, and no call, event or message is touched.
C21_NotificationsOnlyLogged ==
    [][(UnrecognisedConnectStep \/ DisconnectStep)
       => /\ pc' = pc
          /\ exitCode' = exitCode
          /\ exitPending' = exitPending
          /\ netState' \in {"down", "closing"}
          /\ log' = log \cup {IF DisconnectStep
                                THEN "MQTT disconnected unexpectedly!"
                                ELSE "unrecognised error code"}
          /\ UNCHANGED <<calls, delivered, published, clientMsgs, will>>]_vars

\* C21 witness: an unrecognised connect reason and the disconnect that
\* follows it were both reported, and an event was handled afterwards with
\* the run loop still going and the process not exited.
C21_Witness ==
    /\ pc \in Running
    /\ exitCode = None
    /\ exitPending = None
    /\ netState = "down"
    /\ "unrecognised error code" \in log
    /\ "MQTT disconnected unexpectedly!" \in log
    /\ \E i \in DOMAIN clientMsgs :
         /\ clientMsgs[i].after >= 1
         /\ connResults[clientMsgs[i].after].kind = "connack"
         /\ connResults[clientMsgs[i].after].rc = 6

====
